---- MODULE Spec2Model ----
(***************************************************************************)
(* Enterprise Bridge: the token lifecycle of core/auth.py and the uniform  *)
(* adapter contract of adapters/{sap,salesforce,oracle,netsuite}.py.       *)
(*                                                                         *)
(* One adapter instance with its auth strategy is modelled.  Calls on it   *)
(* run one at a time (each action is one whole awaited call).  The vendor  *)
(* and the token endpoint are the environment: every answer they can give  *)
(* is drawn from a small set.                                              *)
(***************************************************************************)
EXTENDS Integers, Sequences, FiniteSets, TLC

\* ------------------------------------------------------------------ bounds
StartTime == 1000
MaxTime == 1040
MaxTokens == 2
MaxClients == 2
MaxFilters == 2
MaxRecords == 2

\* ------------------------------------------------------- program constants
\* auth.py:34  time.time() >= (self.expires_at - 30)
ExpiryBuffer == 30
\* auth.py:100 body.get("expires_in", 3600)
DefaultExpiresIn == 3600

Systems == {"sap", "salesforce", "oracle", "netsuite"}
AuthTypes == {"oauth2_client_credentials", "oauth2_jwt_bearer", "basic", "api_key"}

\* seconds the clock may advance between two calls
TickSteps == {20}
\* expires_in values a token endpoint reports (besides leaving it out)
ExpiresInValues == {20, 40}
\* HTTP status codes a vendor answers with
StatusCodes == {200, 302, 400}

\* ------------------------------------------------------------------ values
\* Python None for TokenInfo | None
NoToken ==
    [serial |-> 0, access_token |-> 0, token_type |-> "", expires_at |-> 0,
     refresh_token |-> "None"]

\* Python None for httpx.AsyncClient | None
NoClient == [id |-> 0, token |-> NoToken]

\* Python truthiness of an optional string
Truthy(s) == s \notin {"None", ""}

\* what the token endpoint answers to one POST
TokenResponses ==
    {[ok |-> FALSE, msg |-> m, has_expires_in |-> FALSE, expires_in |-> 0,
      refresh_token |-> "None"] : m \in {"", "text"}}
    \cup
    {[ok |-> TRUE, msg |-> "text", has_expires_in |-> TRUE, expires_in |-> e,
      refresh_token |-> r] : e \in ExpiresInValues, r \in {"None", "r"}}
    \cup
    {[ok |-> TRUE, msg |-> "text", has_expires_in |-> FALSE, expires_in |-> 0,
      refresh_token |-> r] : r \in {"None", "r"}}

\* what the vendor answers to one request: a transport error carrying
\* str(exc) = msg, or a status code with a body; a 200 may also carry a body
\* that is not JSON, or one that says "success": false, or one that says
\* there is more data (hasMore, nextRecordsUrl with done = false, __next)
Responses ==
    {[err |-> TRUE, msg |-> m, code |-> 0, json_ok |-> FALSE,
      body_success |-> TRUE, more |-> FALSE] : m \in {"", "text"}}
    \cup
    {[err |-> FALSE, msg |-> "text", code |-> c, json_ok |-> TRUE,
      body_success |-> TRUE, more |-> FALSE] : c \in StatusCodes}
    \cup
    {[err |-> FALSE, msg |-> "text", code |-> 200, json_ok |-> j,
      body_success |-> ~j, more |-> FALSE] : j \in BOOLEAN}
    \cup
    {[err |-> FALSE, msg |-> "text", code |-> 200, json_ok |-> TRUE,
      body_success |-> TRUE, more |-> TRUE]}

\* what the SAP gateway answers to the X-CSRF-Token: Fetch request
CsrfResponses ==
    {[err |-> TRUE, msg |-> m, header |-> ""] : m \in {"", "text"}}
    \cup
    {[err |-> FALSE, msg |-> "text", header |-> h] : h \in {"", "csrf"}}

\* ------------------------------------------------------------ core/auth.py

\* faulty variant: expires_at = 0 is an expiry time like any other
IsExpiredZeroExpires(token, t) == t >= (token.expires_at - ExpiryBuffer)

\* faulty variant: no 30-second buffer
IsExpiredNoBuffer(token, t) ==
    IF token.expires_at = 0 THEN FALSE ELSE t >= token.expires_at

\* TokenInfo.is_expired at clock t
IsExpired(token, t) ==
    IF token.expires_at = 0 THEN FALSE ELSE t >= (token.expires_at - ExpiryBuffer)

\* body.get("expires_in", 3600)
ExpiresIn(resp) == IF resp.has_expires_in THEN resp.expires_in ELSE DefaultExpiresIn

\* <Strategy>.acquire_token: [raised, msg, token, calls, posts]
AcquireToken(auth, t, resp, serial) ==
    CASE auth = "basic" ->
           [raised |-> FALSE, msg |-> "",
            token |-> [serial |-> serial, access_token |-> 0, token_type |-> "Basic",
                       expires_at |-> 0, refresh_token |-> "None"],
            calls |-> <<"acquire_token">>, posts |-> 0]
      [] auth = "api_key" ->
           [raised |-> FALSE, msg |-> "",
            token |-> [serial |-> serial, access_token |-> 0, token_type |-> "Bearer",
                       expires_at |-> 0, refresh_token |-> "None"],
            calls |-> <<"acquire_token">>, posts |-> 0]
      [] auth = "oauth2_client_credentials" ->
           IF ~resp.ok
           THEN [raised |-> TRUE, msg |-> resp.msg, token |-> NoToken,
                 calls |-> <<"acquire_token">>, posts |-> 1]
           ELSE [raised |-> FALSE, msg |-> "",
                 token |-> [serial |-> serial, access_token |-> serial,
                            token_type |-> "Bearer",
                            expires_at |-> t + ExpiresIn(resp),
                            refresh_token |-> resp.refresh_token],
                 calls |-> <<"acquire_token">>, posts |-> 1]
      [] auth = "oauth2_jwt_bearer" ->
           IF ~resp.ok
           THEN [raised |-> TRUE, msg |-> resp.msg, token |-> NoToken,
                 calls |-> <<"acquire_token">>, posts |-> 1]
           ELSE [raised |-> FALSE, msg |-> "",
                 token |-> [serial |-> serial, access_token |-> serial,
                            token_type |-> "Bearer",
                            expires_at |-> t + ExpiresIn(resp),
                            refresh_token |-> "None"],
                 calls |-> <<"acquire_token">>, posts |-> 1]

\* <Strategy>.refresh_token(token): [raised, msg, token, calls, posts]
RefreshToken(auth, token, t, resp, serial) ==
    IF auth = "oauth2_client_credentials" /\ Truthy(token.refresh_token)
    THEN IF ~resp.ok
         THEN [raised |-> TRUE, msg |-> resp.msg, token |-> NoToken,
               calls |-> <<"refresh_token">>, posts |-> 1]
         ELSE [raised |-> FALSE, msg |-> "",
               token |-> [serial |-> serial, access_token |-> serial,
                          token_type |-> "Bearer",
                          expires_at |-> t + ExpiresIn(resp),
                          refresh_token |->
                              IF resp.refresh_token = "None"
                              THEN token.refresh_token
                              ELSE resp.refresh_token],
               calls |-> <<"refresh_token">>, posts |-> 1]
    ELSE LET a == AcquireToken(auth, t, resp, serial)
         IN  [a EXCEPT !.calls = <<"refresh_token">> \o a.calls]

\* faulty variant: acquires on every call, whatever is cached
GetTokenAlwaysAcquire(auth, c, t, resp, serial) ==
    LET a == AcquireToken(auth, t, resp, serial)
    IN  [raised |-> a.raised, msg |-> a.msg,
         cached |-> IF a.raised THEN c ELSE a.token,
         token |-> a.token, calls |-> a.calls, posts |-> a.posts]

\* faulty variant: never refreshes, re-acquires instead
GetTokenNeverRefresh(auth, c, t, resp, serial) ==
    IF c = NoToken \/ IsExpired(c, t)
    THEN GetTokenAlwaysAcquire(auth, c, t, resp, serial)
    ELSE [raised |-> FALSE, msg |-> "", cached |-> c, token |-> c,
          calls |-> <<>>, posts |-> 0]

\* faulty variant: a failed refresh or acquisition drops the cached token
GetTokenClearsOnFailure(auth, c, t, resp, serial) ==
    IF c = NoToken \/ IsExpired(c, t)
    THEN LET r == IF c # NoToken /\ Truthy(c.refresh_token)
                  THEN RefreshToken(auth, c, t, resp, serial)
                  ELSE AcquireToken(auth, t, resp, serial)
         IN  [raised |-> r.raised, msg |-> r.msg,
              cached |-> IF r.raised THEN NoToken ELSE r.token,
              token |-> r.token, calls |-> r.calls, posts |-> r.posts]
    ELSE [raised |-> FALSE, msg |-> "", cached |-> c, token |-> c,
          calls |-> <<>>, posts |-> 0]

\* AuthProvider.get_token with _cached = c at clock t:
\* [raised, msg, cached (the new _cached), token (returned), calls, posts]
GetToken(auth, c, t, resp, serial) ==
    IF c = NoToken \/ IsExpired(c, t)
    THEN LET r == IF c # NoToken /\ Truthy(c.refresh_token)
                  THEN RefreshToken(auth, c, t, resp, serial)
                  ELSE AcquireToken(auth, t, resp, serial)
         IN  [raised |-> r.raised, msg |-> r.msg,
              cached |-> IF r.raised THEN c ELSE r.token,
              token |-> r.token, calls |-> r.calls, posts |-> r.posts]
    ELSE [raised |-> FALSE, msg |-> "", cached |-> c, token |-> c,
          calls |-> <<>>, posts |-> 0]

\* ------------------------------------------------------- core/adapter.py

\* OperationResult(success, data, message, metadata); data is "none" for
\* None and "value" for anything else, message is "" or "text", metadata
\* is the set of its keys
Result(success, data, message, metadata) ==
    [success |-> success, data |-> data, message |-> message, metadata |-> metadata]

\* placeholder where a call returned no OperationResult (it raised)
NoResult == Result(FALSE, "none", "", {})

\* ---------------------------------------------------------- adapters/*.py

\* <Adapter>._get_client with _client = cl and _auth._cached = c; cid is the
\* identity of the transport it would create.  The client is never held
\* closed: disconnect() drops it right after closing it.
\* [raised, msg, client, cached, created, asked, token, calls, posts]
GetClient(auth, cl, c, t, resp, serial, cid) ==
    IF cl = NoClient
    THEN LET g == GetToken(auth, c, t, resp, serial)
         IN  [raised |-> g.raised, msg |-> g.msg,
              client |-> IF g.raised THEN NoClient ELSE [id |-> cid, token |-> g.token],
              cached |-> g.cached, created |-> ~g.raised, asked |-> TRUE,
              token |-> g.token, calls |-> g.calls, posts |-> g.posts]
    ELSE [raised |-> FALSE, msg |-> "", client |-> cl, cached |-> c,
          created |-> FALSE, asked |-> FALSE, token |-> NoToken,
          calls |-> <<>>, posts |-> 0]

\* httpx.Response.raise_for_status raises unless the status is 2xx
RaisesForStatus(code) == ~(200 <= code /\ code < 300)

\* faulty variant: the probe's limit is off by one
ConnectOutcomeOffByOne(gc, resp) ==
    IF gc.raised THEN [status |-> "error", result |-> Result(FALSE, "none", gc.msg, {})]
    ELSE IF resp.err THEN [status |-> "error", result |-> Result(FALSE, "none", resp.msg, {})]
    ELSE IF resp.code <= 400
         THEN [status |-> "connected", result |-> Result(TRUE, "none", "text", {})]
         ELSE [status |-> "error", result |-> Result(FALSE, "none", "text", {})]

\* <Adapter>.connect after _get_client gave gc and the probe answered resp:
\* the new _status and the OperationResult
ConnectOutcome(gc, resp) ==
    IF gc.raised THEN [status |-> "error", result |-> Result(FALSE, "none", gc.msg, {})]
    ELSE IF resp.err THEN [status |-> "error", result |-> Result(FALSE, "none", resp.msg, {})]
    ELSE IF resp.code < 400
         THEN [status |-> "connected", result |-> Result(TRUE, "none", "text", {})]
         ELSE [status |-> "error", result |-> Result(FALSE, "none", "text", {})]

\* <Adapter>.health_check: the OperationResult
HealthOutcome(gc, resp) ==
    IF gc.raised THEN Result(FALSE, "none", gc.msg, {})
    ELSE IF resp.err THEN Result(FALSE, "none", resp.msg, {})
    ELSE Result(resp.code < 400, "none", "text", {})

\* metadata of a failed call: only query of salesforce and netsuite adds
\* the rendered query
FailMeta(sys, op) ==
    IF op = "query" /\ sys = "salesforce" THEN {"soql"}
    ELSE IF op = "query" /\ sys = "netsuite" THEN {"suiteql"}
    ELSE {}

\* metadata of a successful query
QueryMeta(sys) ==
    CASE sys = "sap" -> {"total_count", "entity"}
      [] sys = "salesforce" -> {"total_count", "soql", "done", "next_url"}
      [] sys = "oracle" -> {"total_count", "entity", "has_more"}
      [] sys = "netsuite" -> {"total_count", "suiteql", "has_more"}

\* update_record / delete_record that return early on 200 and 204
EarlyReturnOn200_204(sys, op) ==
    \/ op = "update_record" /\ sys \in {"salesforce", "netsuite"}
    \/ op = "delete_record" /\ sys \in {"salesforce", "oracle", "netsuite"}

\* the operations whose try block reads resp.json() and fails with it
ReadsJson(sys, op) ==
    \/ op \in {"query", "get_record", "list_entities"}
    \/ op = "create_record" /\ sys # "netsuite"
    \/ op = "describe_entity" /\ sys # "sap"

\* the try/except block of a data operation once the vendor answered resp
DataOutcome(sys, op, resp) ==
    IF resp.err THEN Result(FALSE, "none", resp.msg, FailMeta(sys, op))
    ELSE IF EarlyReturnOn200_204(sys, op) /\ resp.code \in {200, 204}
         THEN Result(TRUE, "none", "text", {})
    ELSE IF RaisesForStatus(resp.code)
         THEN Result(FALSE, "none", "text", FailMeta(sys, op))
    ELSE IF ReadsJson(sys, op) /\ ~resp.json_ok
         THEN Result(FALSE, "none", "text", FailMeta(sys, op))
    ELSE CASE op = "query" -> Result(TRUE, "value", "", QueryMeta(sys))
           [] op = "create_record" ->
                Result(IF sys = "salesforce" THEN resp.body_success ELSE TRUE,
                       "value", "text", {})
           [] op \in {"update_record", "delete_record"} ->
                Result(TRUE, "none", "text", {})
           [] OTHER -> Result(TRUE, "value", "", {})

\* faulty variant: a query follows the vendor's pointer to the next page
DataRequestsFollowingPages(sys, op, resp) ==
    IF op = "query" /\ ~resp.err /\ resp.more THEN <<"data", "data">> ELSE <<"data">>

\* the requests the try block of a data operation sends when the vendor
\* answers resp: the one request, neither repeated after a failure nor
\* followed by a request for the next page
DataRequests(sys, op, resp) == <<"data">>

\* faulty variant: the token is fetched for every mutating request
FetchCsrfEveryTime(csrf, cresp) ==
    IF cresp.err THEN [raised |-> TRUE, msg |-> cresp.msg, csrf |-> csrf, sent |-> TRUE]
    ELSE [raised |-> FALSE, msg |-> "", csrf |-> cresp.header, sent |-> TRUE]

\* SAPAdapter._fetch_csrf with _csrf_token = csrf:
\* [raised, msg, csrf (the new _csrf_token), sent (a request went out)]
FetchCsrf(csrf, cresp) ==
    IF Truthy(csrf) THEN [raised |-> FALSE, msg |-> "", csrf |-> csrf, sent |-> FALSE]
    ELSE IF cresp.err THEN [raised |-> TRUE, msg |-> cresp.msg, csrf |-> csrf, sent |-> TRUE]
    ELSE [raised |-> FALSE, msg |-> "", csrf |-> cresp.header, sent |-> TRUE]

\* the calls of the SAP adapter that fetch the CSRF token first
NeedsCsrf(sys, op, method) ==
    /\ sys = "sap"
    /\ \/ op \in {"create_record", "update_record", "delete_record"}
       \/ op = "execute_raw" /\ method # "GET"

\* ----------------------------------------------------------- core/schema.py

\* SchemaCache.__init__(ttl_seconds=3600)
DefaultTtl == 3600

\* Python None for EntitySchema | None
NoSchema == [name |-> "None"]

\* the entity names the layers above the adapter are called with
Entities == {"Account", "account"}

\* cache lifetimes a SchemaCache is built with in the schema-layer runs
Ttls == {0, 40}

\* the fields a vendor's describe answer lists, with the label (title) of
\* each where the answer carries one
VendorFieldLists ==
    {<<>>,
     <<[name |-> "Name", label |-> "Account Name", read_only |-> TRUE],
       [name |-> "Id", label |-> "absent", read_only |-> FALSE]>>}

\* what a vendor's describe answer says: the entity's own name, which is
\* also its label (Salesforce only; "absent" when the body has neither),
\* and its fields
DescribeBodies == [name : {"absent"} \cup Entities, fields : VendorFieldLists]

\* FieldInfo(**f) for the dict f an adapter builds from a vendor field: the
\* keys an adapter leaves out take the dataclass defaults, and the label
\* is the name where the vendor gave none (f.get("label", f["name"]))
FieldInfo(name, label, data_type, required, read_only) ==
    [name |-> name, label |-> IF label = "absent" THEN name ELSE label,
     data_type |-> data_type, required |-> required,
     read_only |-> read_only, reference_to |-> "None", picklist_values |-> <<>>,
     description |-> ""]

\* the data of a successful <Adapter>.describe_entity(entity): a key the
\* adapter leaves out of the dict is "absent"
DescribeData(sys, entity, body) ==
    CASE sys = "sap" ->
           LET parsed == [i \in DOMAIN body.fields |->
                             FieldInfo(body.fields[i].name, "absent", "String", FALSE, FALSE)]
               fields == IF parsed = <<>>
                         THEN <<FieldInfo("Id", "absent", "String", TRUE, FALSE)>>
                         ELSE parsed
           IN  [name |-> entity, label |-> entity, key_field |-> fields[1].name,
                description |-> "absent", fields |-> fields]
      [] sys = "salesforce" ->
           [name |-> IF body.name = "absent" THEN entity ELSE body.name,
            label |-> IF body.name = "absent" THEN entity ELSE body.name,
            key_field |-> "Id", description |-> "",
            fields |-> [i \in DOMAIN body.fields |->
                           FieldInfo(body.fields[i].name, body.fields[i].label, "string", FALSE,
                                     body.fields[i].read_only)]]
      [] sys = "oracle" ->
           [name |-> entity, label |-> entity, key_field |-> "Id", description |-> "",
            fields |-> [i \in DOMAIN body.fields |->
                           FieldInfo(body.fields[i].name, body.fields[i].label, "string", FALSE,
                                     body.fields[i].read_only)]]
      [] sys = "netsuite" ->
           [name |-> entity, label |-> entity, key_field |-> "id", description |-> "",
            fields |-> [i \in DOMAIN body.fields |->
                           FieldInfo(body.fields[i].name, body.fields[i].label, "string", FALSE,
                                     body.fields[i].read_only)]]

\* FieldInfo.to_dict: data_type is given out as "type"; read_only,
\* reference_to, picklist_values and description are left out ("absent")
\* when they are falsy
FieldToDict(f) ==
    [name |-> f.name, label |-> f.label, type |-> f.data_type, required |-> f.required,
     read_only |-> IF f.read_only THEN "True" ELSE "absent",
     reference_to |-> IF Truthy(f.reference_to) THEN f.reference_to ELSE "absent",
     picklist_values |-> IF f.picklist_values # <<>> THEN "list" ELSE "absent",
     description |-> IF f.description # "" THEN f.description ELSE "absent"]

\* EntitySchema.to_dict: fetched_at is not given out, field_count is added
SchemaToDict(schema) ==
    [name |-> schema.name, label |-> schema.label, key_field |-> schema.key_field,
     description |-> schema.description, field_count |-> Len(schema.fields),
     fields |-> [i \in DOMAIN schema.fields |-> FieldToDict(schema.fields[i])]]

\* the EntitySchema SchemaDiscovery.describe builds from the adapter's data
BuildSchema(entity, data) ==
    [name |-> IF data.name = "absent" THEN entity ELSE data.name,
     label |-> IF data.label = "absent" THEN entity ELSE data.label,
     fields |-> data.fields,
     key_field |-> IF data.key_field = "absent" THEN "Id" ELSE data.key_field,
     description |-> IF data.description = "absent" THEN "" ELSE data.description,
     fetched_at |-> 0]

\* the characters of the field names and labels of the model
Chars(text) ==
    CASE text = "Name" -> <<"N", "a", "m", "e">>
      [] text = "Account Name" ->
           <<"A", "c", "c", "o", "u", "n", "t", " ", "N", "a", "m", "e">>
      [] text = "Id" -> <<"I", "d">>
      [] OTHER -> <<>>

\* str.lower(), character by character
Lower(chars) ==
    [i \in DOMAIN chars |->
        CASE chars[i] = "A" -> "a"
          [] chars[i] = "I" -> "i"
          [] chars[i] = "M" -> "m"
          [] chars[i] = "N" -> "n"
          [] OTHER -> chars[i]]

\* Python's  sub in text
Contains(sub, text) ==
    \E i \in 0..(Len(text) - Len(sub)) : SubSeq(text, i + 1, i + Len(sub)) = sub

\* faulty variant: only the field names are searched
SearchOutcomeNamesOnly(desc, keyword) ==
    IF ~desc.success THEN desc
    ELSE LET keyword_lower == Lower(keyword)
             matches == SelectSeq(desc.data.fields,
                                  LAMBDA f : Contains(keyword_lower, Lower(Chars(f.name))))
         IN  Result(TRUE, matches, "", {})

\* SchemaDiscovery.search_fields once describe(entity) returned desc
SearchOutcome(desc, keyword) ==
    IF ~desc.success THEN desc
    ELSE LET keyword_lower == Lower(keyword)
             matches == SelectSeq(desc.data.fields,
                                  LAMBDA f : \/ Contains(keyword_lower, Lower(Chars(f.name)))
                                             \/ Contains(keyword_lower, Lower(Chars(f.label))))
         IN  Result(TRUE, matches, "", {})

\* SchemaCache._cache = {}: no entity has an entry
EmptyCache == [e \in Entities |-> NoSchema]

\* faulty variant: an entry is still given out when its age equals the ttl
CacheGetInclusive(cache, ttl, entity, t) ==
    LET schema == cache[entity]
    IN  IF schema.name # "None" /\ (t - schema.fetched_at) <= ttl
        THEN schema
        ELSE NoSchema

\* SchemaCache.get(entity) at clock t
CacheGet(cache, ttl, entity, t) ==
    LET schema == cache[entity]
    IN  IF schema.name # "None" /\ (t - schema.fetched_at) < ttl
        THEN schema
        ELSE NoSchema

\* faulty variant: the entry keeps the fetched_at it came with
CachePutKeepsFetchedAt(cache, schema, t) ==
    [cache EXCEPT ![schema.name] = schema]

\* SchemaCache.put(schema) at clock t
CachePut(cache, schema, t) ==
    [cache EXCEPT ![schema.name] = [schema EXCEPT !.fetched_at = t]]

\* SchemaCache.invalidate(entity); "None" is the call without an argument
CacheInvalidate(cache, entity) ==
    IF Truthy(entity)
    THEN [e \in Entities |-> IF e = entity THEN NoSchema ELSE cache[e]]
    ELSE EmptyCache

\* ------------------------------------------------------------ core/query.py

\* Strings that are taken apart are sequences of characters.

\* OPERATOR_SUFFIXES, in the order parse_filter_key tries them
OPERATOR_SUFFIXES ==
    << <<"_", "_", "g", "t">>,
       <<"_", "_", "g", "t", "e">>,
       <<"_", "_", "l", "t">>,
       <<"_", "_", "l", "t", "e">>,
       <<"_", "_", "n", "e">>,
       <<"_", "_", "i", "n">>,
       <<"_", "_", "l", "i", "k", "e">>,
       <<"_", "_", "n", "u", "l", "l">> >>

\* the operator names the translators test for
OpEq == <<"e", "q">>
OpNe == <<"n", "e">>
OpGt == <<"g", "t">>
OpGte == <<"g", "t", "e">>
OpLt == <<"l", "t">>
OpLte == <<"l", "t", "e">>
OpIn == <<"i", "n">>
OpLike == <<"l", "i", "k", "e">>
OpNull == <<"n", "u", "l", "l">>

\* str.endswith
EndsWith(str, suffix) ==
    /\ Len(str) >= Len(suffix)
    /\ SubSeq(str, Len(str) - Len(suffix) + 1, Len(str)) = suffix

\* faulty variant: the operator keeps the two underscores of the suffix
ParseFilterKeyKeepsUnderscores(key) ==
    LET found == {i \in DOMAIN OPERATOR_SUFFIXES : EndsWith(key, OPERATOR_SUFFIXES[i])}
    IN  IF found = {} THEN <<key, OpEq>>
        ELSE LET suffix == OPERATOR_SUFFIXES[CHOOSE i \in found : \A j \in found : i <= j]
             IN  <<SubSeq(key, 1, Len(key) - Len(suffix)), suffix>>

\* parse_filter_key(key): the first suffix of OPERATOR_SUFFIXES the key
\* ends with is cut off (key[:-len(suffix)]) and named (suffix[2:])
ParseFilterKey(key) ==
    LET found == {i \in DOMAIN OPERATOR_SUFFIXES : EndsWith(key, OPERATOR_SUFFIXES[i])}
    IN  IF found = {} THEN <<key, OpEq>>
        ELSE LET suffix == OPERATOR_SUFFIXES[CHOOSE i \in found : \A j \in found : i <= j]
             IN  <<SubSeq(key, 1, Len(key) - Len(suffix)), SubSeq(suffix, 3, Len(suffix))>>

\* QueryEngine.aggregate: limit=10000
AggregateLimit == 10000

\* r.get(field_name) of one record: None (also when the record has no such
\* key) or a number
NullValue == [null |-> TRUE, v |-> 0]
Number(n) == [null |-> FALSE, v |-> n]

\* sum(float(v) for v in values)
SumOf(values) ==
    LET acc[i \in 0..Len(values)] == IF i = 0 THEN 0 ELSE acc[i - 1] + values[i].v
    IN  acc[Len(values)]

\* min(values), max(values) of a list that is not empty
MinOf(values) ==
    CHOOSE m \in {values[i].v : i \in DOMAIN values} :
        \A i \in DOMAIN values : m <= values[i].v

MaxOf(values) ==
    CHOOSE m \in {values[i].v : i \in DOMAIN values} :
        \A i \in DOMAIN values : m >= values[i].v

\* what aggregate computes: None, or the number num / den
NoneComputed == [null |-> TRUE, num |-> 0, den |-> 1]
Computed(num, den) == [null |-> FALSE, num |-> num, den |-> den]

\* faulty variant: records without a value are counted as zeros
AggregateOutcomeCountsNulls(result, is_list, records, function) ==
    IF ~result.success \/ ~is_list THEN result
    ELSE LET values == records
             computed ==
                 CASE function = "count" -> Computed(Len(values), 1)
                   [] function = "sum" -> Computed(SumOf(values), 1)
                   [] function = "avg" ->
                        IF values # <<>> THEN Computed(SumOf(values), Len(values))
                        ELSE Computed(0, 1)
                   [] function = "min" ->
                        IF values # <<>> THEN Computed(MinOf(values), 1) ELSE NoneComputed
                   [] function = "max" ->
                        IF values # <<>> THEN Computed(MaxOf(values), 1) ELSE NoneComputed
                   [] OTHER -> NoneComputed
         IN  IF function \in {"count", "sum", "avg", "min", "max"}
             THEN Result(TRUE, [function |-> function, computed |-> computed,
                                record_count |-> Len(values)], "", {})
             ELSE Result(FALSE, "none", "text", {})

\* QueryEngine.aggregate once adapter.query returned result, whose data is
\* the list records (is_list) or something else
AggregateOutcome(result, is_list, records, function) ==
    IF ~result.success \/ ~is_list THEN result
    ELSE LET values == SelectSeq(records, LAMBDA r : ~r.null)
             computed ==
                 CASE function = "count" -> Computed(Len(values), 1)
                   [] function = "sum" -> Computed(SumOf(values), 1)
                   [] function = "avg" ->
                        IF values # <<>> THEN Computed(SumOf(values), Len(values))
                        ELSE Computed(0, 1)
                   [] function = "min" ->
                        IF values # <<>> THEN Computed(MinOf(values), 1) ELSE NoneComputed
                   [] function = "max" ->
                        IF values # <<>> THEN Computed(MaxOf(values), 1) ELSE NoneComputed
                   [] OTHER -> NoneComputed
         IN  IF function \in {"count", "sum", "avg", "min", "max"}
             THEN Result(TRUE, [function |-> function, computed |-> computed,
                                record_count |-> Len(values)], "", {})
             ELSE Result(FALSE, "none", "text", {})

\* ------------------------------------------------ adapters/*.py: translators

\* a filter value: its Python type, the text str() gives for it, and the
\* items of a list
StrValue(text) == [type |-> "str", text |-> text, items |-> <<>>]
IntValue(text) == [type |-> "int", text |-> text, items |-> <<>>]
BoolValue(text) == [type |-> "bool", text |-> text, items |-> <<>>]
ListValue(items) == [type |-> "list", text |-> "[...]", items |-> items]

\* the truth value Python gives a filter value (`if value`)
PyTruthy(value) ==
    CASE value.type = "str" -> value.text # ""
      [] value.type = "int" -> value.text # "0"
      [] value.type = "bool" -> value.text = "True"
      [] value.type = "list" -> value.items # <<>>

\* one rendered condition: the field, the operator text and the pieces of
\* the literal in the order they are written; the items of an IN list
Cond(kind, field, op, literal, items) ==
    [kind |-> kind, field |-> field, op |-> op, literal |-> literal, items |-> items]

\* f"'{v}'" if isinstance(v, str) else f"{v}"
Literal(value) ==
    IF value.type = "str" THEN <<"'", value.text, "'">> ELSE <<value.text>>

\* _OPS.get(op) of sap.py
ODataOp(op) ==
    CASE op = OpEq -> "eq" [] op = OpNe -> "ne" [] op = OpGt -> "gt"
      [] op = OpGte -> "ge" [] op = OpLt -> "lt" [] op = OpLte -> "le"
      [] OTHER -> "None"

\* _SOQL_OPS.get(op) of salesforce.py and _SQL_OPS.get(op) of netsuite.py
SqlOp(op) ==
    CASE op = OpEq -> "=" [] op = OpNe -> "!=" [] op = OpGt -> ">"
      [] op = OpGte -> ">=" [] op = OpLt -> "<" [] op = OpLte -> "<="
      [] OTHER -> "None"

\* one turn of the loop of SAPAdapter._build_odata_filter
ODataPart(key, value) ==
    LET field_name == ParseFilterKey(key)[1]
        op == ParseFilterKey(key)[2]
        odata_op == ODataOp(op)
    IN  IF op = OpLike
        THEN Cond("like", field_name, "substringof", <<"'", value.text, "'">>, <<>>)
        ELSE IF op = OpIn /\ value.type = "list"
        THEN Cond("in", field_name, "eq", <<>>,
                  [i \in DOMAIN value.items |-> Literal(value.items[i])])
        ELSE IF op = OpNull
        THEN Cond("null", field_name, IF PyTruthy(value) THEN "eq null" ELSE "ne null",
                  <<>>, <<>>)
        ELSE IF odata_op # "None"
        THEN Cond("compare", field_name, odata_op, Literal(value), <<>>)
        ELSE Cond("compare", field_name, "eq", Literal(value), <<>>)

\* one turn of the loop of SalesforceAdapter._build_soql
SoqlClause(key, value) ==
    LET field_name == ParseFilterKey(key)[1]
        op == ParseFilterKey(key)[2]
        sql_op == SqlOp(op)
    IN  IF op = OpLike
        THEN Cond("like", field_name, "LIKE", <<"'", value.text, "'">>, <<>>)
        ELSE IF op = OpIn /\ value.type = "list"
        THEN Cond("in", field_name, "IN", <<>>,
                  [i \in DOMAIN value.items |-> Literal(value.items[i])])
        ELSE IF op = OpNull
        THEN Cond("null", field_name, IF PyTruthy(value) THEN "= null" ELSE "!= null",
                  <<>>, <<>>)
        ELSE IF sql_op # "None"
        THEN Cond("compare", field_name, sql_op, Literal(value), <<>>)
        ELSE Cond("compare", field_name, "=", Literal(value), <<>>)

\* faulty variant: every value is quoted
FormatValAlwaysQuotes(value) == <<"'", value.text, "'">>

\* OracleAdapter._format_val
FormatVal(value) ==
    IF value.type = "str" THEN <<"'", value.text, "'">> ELSE <<value.text>>

\* one turn of the loop of OracleAdapter._build_finder_params
FinderCondition(key, value) ==
    LET field_name == ParseFilterKey(key)[1]
        op == ParseFilterKey(key)[2]
    IN  IF op = OpLike
        THEN Cond("like", field_name, "LIKE", <<"'", value.text, "'">>, <<>>)
        ELSE IF op = OpIn /\ value.type = "list"
        THEN Cond("in", field_name, "IN", <<>>,
                  [i \in DOMAIN value.items |-> Literal(value.items[i])])
        ELSE IF op = OpNull
        THEN Cond("null", field_name, IF PyTruthy(value) THEN "IS NULL" ELSE "IS NOT NULL",
                  <<>>, <<>>)
        ELSE IF op = OpGt THEN Cond("compare", field_name, ">", FormatVal(value), <<>>)
        ELSE IF op = OpGte THEN Cond("compare", field_name, ">=", FormatVal(value), <<>>)
        ELSE IF op = OpLt THEN Cond("compare", field_name, "<", FormatVal(value), <<>>)
        ELSE IF op = OpLte THEN Cond("compare", field_name, "<=", FormatVal(value), <<>>)
        ELSE IF op = OpNe THEN Cond("compare", field_name, "!=", FormatVal(value), <<>>)
        ELSE Cond("compare", field_name, "=", FormatVal(value), <<>>)

\* one turn of the loop of NetSuiteAdapter._build_suiteql
SuiteqlClause(key, value) ==
    LET field_name == ParseFilterKey(key)[1]
        op == ParseFilterKey(key)[2]
        sql_op == SqlOp(op)
    IN  IF op = OpLike
        THEN Cond("like", field_name, "LIKE", <<"'%", value.text, "%'">>, <<>>)
        ELSE IF op = OpIn /\ value.type = "list"
        THEN Cond("in", field_name, "IN", <<>>,
                  [i \in DOMAIN value.items |-> Literal(value.items[i])])
        ELSE IF op = OpNull
        THEN Cond("null", field_name, IF PyTruthy(value) THEN "IS NULL" ELSE "IS NOT NULL",
                  <<>>, <<>>)
        ELSE IF sql_op # "None"
        THEN Cond("compare", field_name, sql_op, Literal(value), <<>>)
        ELSE Cond("compare", field_name, "=", Literal(value), <<>>)

\* the conditions a translator renders for a filter dict (its items() in
\* order), and the text they are joined with; nothing of it raises
BuildODataFilter(filters) ==
    [raised |-> FALSE, joined_by |-> " and ",
     conditions |-> [i \in DOMAIN filters |-> ODataPart(filters[i].key, filters[i].value)]]

BuildSoql(filters) ==
    [raised |-> FALSE, joined_by |-> " AND ",
     conditions |-> [i \in DOMAIN filters |-> SoqlClause(filters[i].key, filters[i].value)]]

BuildFinderParams(filters) ==
    [raised |-> FALSE, joined_by |-> " AND ",
     conditions |-> [i \in DOMAIN filters |->
                        FinderCondition(filters[i].key, filters[i].value)]]

\* a paging clause of a rendered query: FETCH NEXT rows ROWS ONLY, or
\* OFFSET rows ROWS
Clause(kind, rows) == [clause |-> kind, rows |-> rows]

\* str.replace(old, new) on a query held as its sequence of clauses
ReplaceClause(clauses, old, new) ==
    LET acc[i \in 0..Len(clauses)] ==
            IF i = 0 THEN <<>>
            ELSE acc[i - 1] \o (IF clauses[i] = old THEN new ELSE <<clauses[i]>>)
    IN  acc[Len(clauses)]

\* the tail of NetSuiteAdapter._build_suiteql: "if limit:" appends the
\* FETCH clause, "if offset:" replaces it by the OFFSET and FETCH clauses
SuiteqlPaging(limit, offset) ==
    LET fetched == IF limit # 0 THEN <<Clause("FETCH", limit)>> ELSE <<>>
    IN  IF offset # 0
        THEN ReplaceClause(fetched, Clause("FETCH", limit),
                           <<Clause("OFFSET", offset), Clause("FETCH", limit)>>)
        ELSE fetched

\* NetSuiteAdapter._build_suiteql(entity, filters, fields, limit, offset)
BuildSuiteql(filters, limit, offset) ==
    [raised |-> FALSE, joined_by |-> " AND ",
     conditions |-> [i \in DOMAIN filters |->
                        SuiteqlClause(filters[i].key, filters[i].value)],
     paging |-> SuiteqlPaging(limit, offset)]

\* -------------------------------------------------------------------- state
VARIABLES
    system,      \* which adapter class this instance is
    auth_type,   \* config["auth"]["type"]
    now,         \* time.time()
    cached,      \* self._auth._cached
    client,      \* self._client, with the token its headers were built from
    live,        \* ids of the transports created and not yet closed
    status,      \* self._status
    csrf_token,  \* SAPAdapter._csrf_token
    ntokens,     \* tokens issued so far
    nclients,    \* transports created so far
    last,        \* the adapter call that has just ended and what it did and
                 \* returned, until its caller takes the result (NoCall in
                 \* between)
    schema_ttl,  \* SchemaCache._ttl
    schema_cache,\* SchemaCache._cache
    prev,        \* the call above the adapter that ended before this one,
                 \* when it was a describe without force_refresh that got the
                 \* description from the vendor
    inp,         \* the arguments of a call of a pure function
    out,         \* the call on the layer above the adapter (SchemaCache,
                 \* SchemaDiscovery, QueryEngine, a translator) that has just
                 \* ended, until its caller takes the result (NoOut in between)
    tasks        \* the calls under way at once, where calls overlap

vars == <<system, auth_type, now, cached, client, live, status, csrf_token,
          ntokens, nclients, last, schema_ttl, schema_cache, prev, inp, out, tasks>>

\* the state above the adapter
upper == <<schema_ttl, schema_cache, prev, inp, out, tasks>>

NoCall ==
    [op |-> "none", outcome |-> "none", result |-> NoResult, calls |-> <<>>,
     asked |-> FALSE, token |-> NoToken, sent |-> <<>>, probe |-> 0, more |-> FALSE,
     method |-> ""]

\* no call above the adapter has ended, no pure function is being applied
NoOut == [op |-> "none"]
NoInput == [fn |-> "none"]
NoPrev == [entity |-> "None", at |-> 0]

\* no calls overlap
NoTasks == <<>>

\* BaseAdapter.__init__ and <Adapter>.__init__, <Strategy>.__init__
InitAdapter ==
    /\ system \in Systems
    /\ auth_type \in AuthTypes
    /\ now = StartTime
    /\ cached = NoToken
    /\ client = NoClient
    /\ live = {}
    /\ status = "disconnected"
    /\ csrf_token = "None"
    /\ ntokens = 0
    /\ nclients = 0
    /\ last = NoCall

\* the adapter as constructed, under a SchemaCache() of the default ttl
Init ==
    /\ InitAdapter
    /\ schema_ttl = DefaultTtl
    /\ schema_cache = EmptyCache
    /\ prev = NoPrev
    /\ inp = NoInput
    /\ out = NoOut
    /\ tasks = NoTasks

\* the counters stay within the bounds of the model
WithinBounds(gc) ==
    /\ gc.cached.serial <= MaxTokens
    /\ gc.client.id <= MaxClients

\* no call is under way: calls on the adapter run one at a time
Idle == last = NoCall /\ out = NoOut

\* the state a call leaves behind, given what _get_client did (gc)
Finish(op, method, gc, outcome, result, st, csrf, sent, probe, more) ==
    /\ WithinBounds(gc)
    /\ cached' = gc.cached
    /\ client' = gc.client
    /\ live' = IF gc.created THEN live \cup {gc.client.id} ELSE live
    /\ nclients' = IF gc.created THEN nclients + 1 ELSE nclients
    /\ ntokens' = IF gc.cached.serial > ntokens THEN ntokens + 1 ELSE ntokens
    /\ status' = st
    /\ csrf_token' = csrf
    /\ last' = [op |-> op, outcome |-> outcome, result |-> result,
                calls |-> gc.calls, asked |-> gc.asked, token |-> gc.token,
                sent |-> sent, probe |-> probe, more |-> more, method |-> method]
    /\ UNCHANGED <<system, auth_type, now>>

\* time passes between two calls
Tick ==
    /\ Idle
    /\ \E d \in TickSteps : now + d <= MaxTime /\ now' = now + d
    /\ UNCHANGED <<system, auth_type, cached, client, live, status, csrf_token,
                   ntokens, nclients, last>>
    /\ UNCHANGED upper

\* the caller takes the result (or the exception) of the call that ended
Return ==
    /\ ~Idle
    /\ last' = NoCall
    /\ out' = NoOut
    /\ prev' = IF out.op = "describe" /\ ~out.force /\ out.remote = 1
                  /\ out.outcome = "returned" /\ out.result.success
               THEN [entity |-> out.entity, at |-> now]
               ELSE NoPrev
    /\ UNCHANGED <<system, auth_type, now, cached, client, live, status, csrf_token,
                   ntokens, nclients, schema_ttl, schema_cache, inp, tasks>>

\* an answer that is not looked at: no request was made for it
Unasked(S) == CHOOSE r \in S : TRUE

\* a direct call of self._auth.get_token()
GetTokenCall ==
    /\ Idle
    /\ UNCHANGED upper
    /\ \E tresp \in TokenResponses :
        LET g == GetToken(auth_type, cached, now, tresp, ntokens + 1)
            gc == [raised |-> g.raised, msg |-> g.msg, client |-> client,
                   cached |-> g.cached, created |-> FALSE, asked |-> TRUE,
                   token |-> g.token, calls |-> g.calls, posts |-> g.posts]
        IN  /\ g.posts > 0 \/ tresp = Unasked(TokenResponses)
            /\ Finish("get_token", "", gc, IF g.raised THEN "raised" ELSE "returned",
                      NoResult, status, csrf_token, <<>>, 0, FALSE)

\* <Adapter>.connect
Connect ==
    /\ Idle
    /\ UNCHANGED upper
    /\ \E tresp \in TokenResponses :
        LET gc == GetClient(auth_type, client, cached, now, tresp, ntokens + 1, nclients + 1)
        IN  /\ gc.posts > 0 \/ tresp = Unasked(TokenResponses)
            /\ \E resp \in Responses :
                 LET o == ConnectOutcome(gc, resp)
                 IN  /\ ~gc.raised \/ resp = Unasked(Responses)
                     /\ Finish("connect", "GET", gc, "returned", o.result, o.status, csrf_token,
                               IF gc.raised THEN <<>> ELSE <<"probe">>,
                               IF gc.raised \/ resp.err THEN 0 ELSE resp.code, FALSE)

\* faulty variant: the transport is closed but kept
DisconnectKeepsClient ==
    /\ last = NoCall
    /\ live' = {}
    /\ status' = "disconnected"
    /\ csrf_token' = IF system = "sap" THEN "None" ELSE csrf_token
    /\ last' = [NoCall EXCEPT !.op = "disconnect", !.outcome = "returned",
                              !.result = Result(TRUE, "none", "text", {})]
    /\ UNCHANGED <<system, auth_type, now, cached, client, ntokens, nclients>>
    /\ UNCHANGED upper

\* <Adapter>.disconnect
Disconnect ==
    /\ Idle
    /\ live' = IF client # NoClient THEN live \ {client.id} ELSE live
    /\ client' = NoClient
    /\ csrf_token' = IF system = "sap" THEN "None" ELSE csrf_token
    /\ status' = "disconnected"
    /\ last' = [NoCall EXCEPT !.op = "disconnect", !.outcome = "returned",
                              !.result = Result(TRUE, "none", "text", {})]
    /\ UNCHANGED <<system, auth_type, now, cached, ntokens, nclients>>
    /\ UNCHANGED upper

\* faulty variant: the health check records its verdict in _status
HealthCheckSetsStatus ==
    /\ Idle
    /\ UNCHANGED upper
    /\ \E tresp \in TokenResponses :
        LET gc == GetClient(auth_type, client, cached, now, tresp, ntokens + 1, nclients + 1)
        IN  /\ gc.posts > 0 \/ tresp = Unasked(TokenResponses)
            /\ \E resp \in Responses :
                 LET r == HealthOutcome(gc, resp)
                 IN  /\ ~gc.raised \/ resp = Unasked(Responses)
                     /\ Finish("health_check", "GET", gc, "returned", r,
                               IF r.success THEN "connected" ELSE "error", csrf_token,
                               IF gc.raised THEN <<>> ELSE <<"probe">>,
                               IF gc.raised \/ resp.err THEN 0 ELSE resp.code, FALSE)

\* <Adapter>.health_check
HealthCheck ==
    /\ Idle
    /\ UNCHANGED upper
    /\ \E tresp \in TokenResponses :
        LET gc == GetClient(auth_type, client, cached, now, tresp, ntokens + 1, nclients + 1)
        IN  /\ gc.posts > 0 \/ tresp = Unasked(TokenResponses)
            /\ \E resp \in Responses :
                 /\ ~gc.raised \/ resp = Unasked(Responses)
                 /\ Finish("health_check", "GET", gc, "returned", HealthOutcome(gc, resp), status,
                           csrf_token,
                           IF gc.raised THEN <<>> ELSE <<"probe">>,
                           IF gc.raised \/ resp.err THEN 0 ELSE resp.code, FALSE)

\* a data operation: _get_client (and for SAP writes _fetch_csrf) run
\* before the try block, the request and its handling inside it.  Every
\* request goes out on self._client, with the headers it was built with.
DataCall(op, method) ==
    /\ Idle
    /\ \E tresp \in TokenResponses :
        LET gc == GetClient(auth_type, client, cached, now, tresp, ntokens + 1, nclients + 1)
        IN  /\ gc.posts > 0 \/ tresp = Unasked(TokenResponses)
            /\ \E cresp \in CsrfResponses :
                 LET fc == IF ~gc.raised /\ NeedsCsrf(system, op, method)
                           THEN FetchCsrf(csrf_token, cresp)
                           ELSE [raised |-> FALSE, msg |-> "", csrf |-> csrf_token,
                                 sent |-> FALSE]
                     csrfReq == IF fc.sent THEN <<"csrf">> ELSE <<>>
                 IN  /\ fc.sent \/ cresp = Unasked(CsrfResponses)
                     /\ \E resp \in Responses :
                          /\ ~(gc.raised \/ fc.raised) \/ resp = Unasked(Responses)
                          /\ IF gc.raised
                             THEN Finish(op, method, gc, "raised", NoResult, status, csrf_token,
                                         <<>>, 0, FALSE)
                             ELSE IF fc.raised
                             THEN Finish(op, method, gc, "raised", NoResult, status, fc.csrf,
                                         csrfReq, 0, FALSE)
                             ELSE Finish(op, method, gc, "returned", DataOutcome(system, op, resp),
                                         status, fc.csrf,
                                         csrfReq \o DataRequests(system, op, resp), 0,
                                         op = "query" /\ ~resp.err /\ resp.more)

\* an operation called on the adapter itself: the layers above stay as they are
AdapterCall(op, method) == DataCall(op, method) /\ UNCHANGED upper

\* <Adapter>.query
Query == AdapterCall("query", "GET")

\* <Adapter>.get_record
GetRecord == AdapterCall("get_record", "GET")

\* <Adapter>.create_record
CreateRecord == AdapterCall("create_record", "POST")

\* <Adapter>.update_record
UpdateRecord == AdapterCall("update_record", "PATCH")

\* <Adapter>.delete_record
DeleteRecord == AdapterCall("delete_record", "DELETE")

\* <Adapter>.list_entities
ListEntities == AdapterCall("list_entities", "GET")

\* <Adapter>.describe_entity
DescribeEntity == AdapterCall("describe_entity", "GET")

\* <Adapter>.execute_raw(method, path, body)
ExecuteRaw ==
    \E method \in {"GET", "POST"} : AdapterCall("execute_raw", method)

\* the adapter with its state as it is
adapterVars ==
    <<system, auth_type, now, cached, client, live, status, csrf_token, ntokens,
      nclients>>

\* a SchemaDiscovery over an adapter, with a cache of its own
InitSchema ==
    /\ InitAdapter
    \* one strategy that never asks a token endpoint, one that does
    /\ auth_type \in {"api_key", "oauth2_jwt_bearer"}
    /\ schema_ttl \in Ttls
    /\ schema_cache = EmptyCache
    /\ prev = NoPrev
    /\ inp = NoInput
    /\ out = NoOut
    /\ tasks = NoTasks

\* the schemas a caller puts into the cache itself
PutSchemas ==
    {BuildSchema(e, DescribeData(system, e, [name |-> "absent", fields |-> fs])) :
        e \in Entities, fs \in VendorFieldLists}

\* SchemaCache.put(schema)
Put ==
    /\ Idle
    /\ \E schema \in PutSchemas :
         /\ schema_cache' = CachePut(schema_cache, schema, now)
         /\ out' = [op |-> "put", entity |-> schema.name, schema |-> schema]
    /\ UNCHANGED <<adapterVars, last, schema_ttl, prev, inp, tasks>>

\* SchemaCache.get(entity)
Get ==
    /\ Idle
    /\ \E entity \in Entities :
         out' = [op |-> "get", entity |-> entity,
                 result |-> CacheGet(schema_cache, schema_ttl, entity, now)]
    /\ UNCHANGED <<adapterVars, last, schema_ttl, schema_cache, prev, inp, tasks>>

\* SchemaCache.invalidate(entity): without an argument ("None"), with an
\* entity name, with the empty string
Invalidate ==
    /\ Idle
    /\ \E entity \in Entities \cup {"None", ""} :
         /\ schema_cache' = CacheInvalidate(schema_cache, entity)
         /\ out' = [op |-> "invalidate", entity |-> entity]
    /\ UNCHANGED <<adapterVars, last, schema_ttl, prev, inp, tasks>>

\* faulty variant: a failed describe_entity drops the entry of the entity
DescribeDropsEntryOnFailure ==
    /\ Idle
    /\ \E entity \in Entities, force \in BOOLEAN :
         LET hit == IF force THEN NoSchema
                    ELSE CacheGet(schema_cache, schema_ttl, entity, now)
         IN  IF hit.name # "None"
             THEN /\ out' = [op |-> "describe", entity |-> entity, force |-> force,
                             outcome |-> "returned", remote |-> 0,
                             result |-> Result(TRUE, SchemaToDict(hit), "from cache", {})]
                  /\ UNCHANGED <<adapterVars, last, schema_cache>>
             ELSE /\ DataCall("describe_entity", "GET")
                  /\ \E body \in DescribeBodies :
                       LET ok == last'.outcome = "returned" /\ last'.result.success
                           schema == BuildSchema(entity, DescribeData(system, entity, body))
                           cache == CachePut(schema_cache, schema, now)
                       IN  /\ IF ok
                              THEN system = "salesforce" \/ body.name = "absent"
                              ELSE body = Unasked(DescribeBodies)
                           /\ schema_cache' = IF ok THEN cache
                                            ELSE CacheInvalidate(schema_cache, entity)
                           /\ out' = [op |-> "describe", entity |-> entity,
                                      force |-> force, outcome |-> last'.outcome,
                                      remote |-> 1,
                                      result |->
                                          IF ok
                                          THEN [last'.result EXCEPT
                                                  !.data = SchemaToDict(cache[schema.name])]
                                          ELSE last'.result]
    /\ UNCHANGED <<schema_ttl, prev, inp, tasks>>

\* SchemaDiscovery.describe(entity, force_refresh): the cached entry, or
\* one call of the adapter's describe_entity whose data, when it
\* succeeded, is rebuilt as an EntitySchema, put into the cache and given
\* back as that schema's to_dict().  op tells whether describe was called
\* itself or by search_fields(entity, keyword).
DescribeCall(entity, force, op, keyword) ==
    LET hit == IF force THEN NoSchema
               ELSE CacheGet(schema_cache, schema_ttl, entity, now)
        Out(outcome, remote, desc) ==
            IF op = "describe"
            THEN [op |-> op, entity |-> entity, force |-> force, outcome |-> outcome,
                  remote |-> remote, result |-> desc]
            ELSE [op |-> op, entity |-> entity, keyword |-> keyword,
                  outcome |-> outcome, remote |-> remote, described |-> desc,
                  result |-> IF outcome = "returned" THEN SearchOutcome(desc, keyword)
                             ELSE NoResult]
    IN  IF hit.name # "None"
        THEN /\ out' = Out("returned", 0,
                           Result(TRUE, SchemaToDict(hit), "from cache", {}))
             /\ UNCHANGED <<adapterVars, last, schema_cache>>
        ELSE /\ DataCall("describe_entity", "GET")
             /\ \E body \in DescribeBodies :
                  LET ok == last'.outcome = "returned" /\ last'.result.success
                      schema == BuildSchema(entity, DescribeData(system, entity, body))
                      cache == CachePut(schema_cache, schema, now)
                  IN  /\ IF ok
                         THEN system = "salesforce" \/ body.name = "absent"
                         ELSE body = Unasked(DescribeBodies)
                      /\ schema_cache' = IF ok THEN cache ELSE schema_cache
                      /\ out' = Out(last'.outcome, 1,
                                    IF ok
                                    THEN [last'.result EXCEPT
                                            !.data = SchemaToDict(cache[schema.name])]
                                    ELSE last'.result)

\* SchemaDiscovery.describe(entity, force_refresh)
Describe ==
    /\ Idle
    /\ \E entity \in Entities, force \in BOOLEAN :
         DescribeCall(entity, force, "describe", <<>>)
    /\ UNCHANGED <<schema_ttl, prev, inp, tasks>>

\* the keywords fields are searched for: "", "NAM", "cc", "id", "x"
Keywords == {<<>>, <<"N", "A", "M">>, <<"c", "c">>, <<"i", "d">>, <<"x">>}

\* SchemaDiscovery.search_fields(entity, keyword): describe(entity), then
\* the fields that match
SearchFields ==
    /\ Idle
    /\ \E entity \in Entities, keyword \in Keywords :
         DescribeCall(entity, FALSE, "search_fields", keyword)
    /\ UNCHANGED <<schema_ttl, prev, inp, tasks>>

\* a SchemaDiscovery that is only searched
NextSearch ==
    \/ Tick
    \/ SearchFields
    \/ Return

SpecSearch == InitSchema /\ [][NextSearch]_vars

\* the schema layer: a SchemaDiscovery and its SchemaCache
NextSchema ==
    \/ Tick
    \/ Put
    \/ Get
    \/ Invalidate
    \/ Describe
    \/ Return

SpecSchema == InitSchema /\ [][NextSchema]_vars

\* the ends a filter key is given: the eight suffixes, none, a suffix with
\* one underscore, an unknown one, one with a letter after it, one in
\* upper case
KeyTails ==
    {OPERATOR_SUFFIXES[i] : i \in DOMAIN OPERATOR_SUFFIXES}
    \cup {<<>>, <<"_", "g", "t">>, <<"_", "_", "e", "q">>, <<"_", "_", "g", "t", "x">>,
          <<"_", "_", "G", "T">>}

\* the keys parse_filter_key is applied to: also no field name at all, a
\* field name that ends in an underscore, and one that holds a suffix
FilterKeys ==
    {b \o t : b \in {<<>>, <<"a">>, <<"a", "_">>, <<"a", "_", "_", "i", "n">>},
              t \in KeyTails}

\* the keys and values of the filters the translators are applied to
TranslatorKeys ==
    {<<"a">> \o t : t \in {OPERATOR_SUFFIXES[i] : i \in DOMAIN OPERATOR_SUFFIXES}
                          \cup {<<>>, <<"_", "_", "e", "q">>}}

FilterValues ==
    {StrValue("x"), IntValue("0"), BoolValue("True"),
     ListValue(<<StrValue("x"), IntValue("0")>>)}

\* filter dicts: up to MaxFilters entries in insertion order, keys unique
FilterDicts ==
    {f \in UNION {[1..n -> [key : TranslatorKeys, value : FilterValues]] :
                    n \in 0..MaxFilters} :
        \A i, j \in DOMAIN f : i # j => f[i].key # f[j].key}

\* a filter key or a filter dict in the hands of an adapter
InitFilter ==
    /\ InitAdapter
    /\ auth_type = "basic"
    /\ schema_ttl = DefaultTtl
    /\ schema_cache = EmptyCache
    /\ prev = NoPrev
    /\ inp \in {[fn |-> "parse_filter_key", key |-> k, filters |-> <<>>] : k \in FilterKeys}
              \cup {[fn |-> "translate", key |-> <<>>, filters |-> f] : f \in FilterDicts}
    /\ out = NoOut
    /\ tasks = NoTasks

\* parse_filter_key(key)
ParseFilterKeyCall ==
    /\ Idle
    /\ inp.fn = "parse_filter_key"
    /\ out' = [op |-> "parse_filter_key", result |-> ParseFilterKey(inp.key)]
    /\ UNCHANGED <<adapterVars, last, schema_ttl, schema_cache, prev, inp, tasks>>

\* a translator applied to the filters, ending with result
Translated(result) ==
    /\ out' = [op |-> "translate", outcome |-> IF result.raised THEN "raised" ELSE "returned",
               result |-> result]
    /\ UNCHANGED <<adapterVars, last, schema_ttl, schema_cache, prev, inp, tasks>>

\* SAPAdapter._build_odata_filter(filters)
TranslateOData ==
    /\ Idle
    /\ inp.fn = "translate" /\ system = "sap"
    /\ Translated(BuildODataFilter(inp.filters))

\* SalesforceAdapter._build_soql(entity, filters, ...)
TranslateSoql ==
    /\ Idle
    /\ inp.fn = "translate" /\ system = "salesforce"
    /\ Translated(BuildSoql(inp.filters))

\* OracleAdapter._build_finder_params(filters, ...)
TranslateFinder ==
    /\ Idle
    /\ inp.fn = "translate" /\ system = "oracle"
    /\ Translated(BuildFinderParams(inp.filters))

\* the limits and offsets a query is paged with (limit 0: QueryEngine.count)
PageLimits == {0, 100}
PageOffsets == {0, 5}

\* NetSuiteAdapter._build_suiteql(entity, filters, fields, limit, offset)
TranslateSuiteql ==
    /\ Idle
    /\ inp.fn = "translate" /\ system = "netsuite"
    /\ \E limit \in PageLimits, offset \in PageOffsets :
         LET result == BuildSuiteql(inp.filters, limit, offset)
         IN  out' = [op |-> "translate",
                     outcome |-> IF result.raised THEN "raised" ELSE "returned",
                     result |-> result, limit |-> limit, offset |-> offset]
    /\ UNCHANGED <<adapterVars, last, schema_ttl, schema_cache, prev, inp, tasks>>

\* the portable filter and its four translators
NextFilter ==
    \/ ParseFilterKeyCall
    \/ TranslateOData
    \/ TranslateSoql
    \/ TranslateFinder
    \/ TranslateSuiteql
    \/ Return

SpecFilter == InitFilter /\ [][NextFilter]_vars

\* the values of the aggregated field in the records a vendor answers with
FieldValues == {NullValue, Number(-3), Number(0), Number(2)}

\* the record lists a vendor answers a query with
RecordLists == UNION {[1..n -> FieldValues] : n \in 0..MaxRecords}

\* the function names aggregate is called with
AggregateFunctions == {"count", "sum", "avg", "min", "max", "median"}

\* a QueryEngine over an adapter
InitEngine ==
    /\ InitAdapter
    \* one strategy that never asks a token endpoint, one that does
    /\ auth_type \in {"api_key", "oauth2_jwt_bearer"}
    /\ schema_ttl = DefaultTtl
    /\ schema_cache = EmptyCache
    /\ prev = NoPrev
    /\ inp = NoInput
    /\ out = NoOut
    /\ tasks = NoTasks

\* QueryEngine.aggregate(entity, field_name, function): one adapter.query
\* with filters={}, fields=[field_name], limit=10000, then the aggregate
\* of what it returned.  A vendor answers a query with a list of records.
Aggregate ==
    /\ Idle
    /\ DataCall("query", "GET")
    /\ \E function \in AggregateFunctions, records \in RecordLists :
         LET ok == last'.outcome = "returned" /\ last'.result.success
         IN  /\ ok \/ records = Unasked(RecordLists)
             /\ out' = [op |-> "aggregate", function |-> function,
                        query |-> [filters |-> <<>>, fields |-> <<"field_name">>,
                                   limit |-> AggregateLimit, offset |-> 0],
                        records |-> records,
                        outcome |-> last'.outcome,
                        result |-> IF last'.outcome = "raised" THEN NoResult
                                   ELSE AggregateOutcome(last'.result, TRUE, records,
                                                         function)]
    /\ UNCHANGED <<schema_ttl, schema_cache, prev, inp, tasks>>

\* the query engine over an adapter
NextEngine ==
    \/ Tick
    \/ Aggregate
    \/ Return

SpecEngine == InitEngine /\ [][NextEngine]_vars

\* the callers whose calls may overlap
Callers == {1, 2}

\* a caller that is not in a call
NoTask ==
    [pc |-> "idle", op |-> "none", arg |-> NoToken, outcome |-> "none", token |-> NoToken]

\* one strategy and two callers of its get_token().  The strategies are
\* those whose acquire_token and refresh_token await the token endpoint;
\* BasicAuth and APIKeyAuth never suspend, so their get_token() runs as
\* one step.  produced collects the tokens of the acquisitions and
\* refreshes that completed.
InitRace ==
    /\ InitAdapter
    /\ auth_type \in {"oauth2_client_credentials", "oauth2_jwt_bearer"}
    /\ schema_ttl = DefaultTtl
    /\ schema_cache = EmptyCache
    /\ prev = NoPrev
    /\ inp = NoInput
    /\ out = NoOut
    /\ tasks = [calls |-> [p \in Callers |-> NoTask], produced |-> {}]

\* get_token() up to its await: a valid cached token is returned at once,
\* otherwise refresh_token(self._cached) or acquire_token() is started
GetTokenBegin(p) ==
    /\ Idle
    /\ tasks.calls[p].pc = "idle"
    /\ tasks' =
         [tasks EXCEPT !.calls[p] =
            IF cached = NoToken \/ IsExpired(cached, now)
            THEN [pc |-> "awaiting",
                  op |-> IF cached # NoToken /\ Truthy(cached.refresh_token)
                         THEN "refresh_token" ELSE "acquire_token",
                  arg |-> cached, outcome |-> "none", token |-> NoToken]
            ELSE [pc |-> "done", op |-> "none", arg |-> NoToken,
                  outcome |-> "returned", token |-> cached]]
    /\ UNCHANGED <<adapterVars, last, schema_ttl, schema_cache, prev, inp, out>>

\* faulty variant: the call returns the token it saw before the await
GetTokenEndReturnsStale(p) ==
    /\ Idle
    /\ tasks.calls[p].pc = "awaiting"
    /\ \E tresp \in TokenResponses :
         LET c == tasks.calls[p]
             r == IF c.op = "refresh_token"
                  THEN RefreshToken(auth_type, c.arg, now, tresp, ntokens + 1)
                  ELSE AcquireToken(auth_type, now, tresp, ntokens + 1)
         IN  IF r.raised
             THEN /\ tasks' = [tasks EXCEPT !.calls[p] =
                                 [c EXCEPT !.pc = "done", !.outcome = "raised"]]
                  /\ UNCHANGED <<cached, ntokens>>
             ELSE /\ ntokens < MaxTokens
                  /\ cached' = r.token
                  /\ ntokens' = ntokens + 1
                  /\ tasks' = [tasks EXCEPT
                                 !.calls[p] = [c EXCEPT !.pc = "done",
                                                        !.outcome = "returned",
                                                        !.token = c.arg],
                                 !.produced = @ \cup {r.token}]
    /\ UNCHANGED <<system, auth_type, now, client, live, status, csrf_token, nclients,
                   last, schema_ttl, schema_cache, prev, inp, out>>

\* get_token() from its await on: the token endpoint answers; a failure
\* leaves the call with the exception, a token is assigned to
\* self._cached and self._cached is returned, without a further await
GetTokenEnd(p) ==
    /\ Idle
    /\ tasks.calls[p].pc = "awaiting"
    /\ \E tresp \in TokenResponses :
         LET c == tasks.calls[p]
             r == IF c.op = "refresh_token"
                  THEN RefreshToken(auth_type, c.arg, now, tresp, ntokens + 1)
                  ELSE AcquireToken(auth_type, now, tresp, ntokens + 1)
         IN  IF r.raised
             THEN /\ tasks' = [tasks EXCEPT !.calls[p] =
                                 [c EXCEPT !.pc = "done", !.outcome = "raised"]]
                  /\ UNCHANGED <<cached, ntokens>>
             ELSE /\ ntokens < MaxTokens
                  /\ cached' = r.token
                  /\ ntokens' = ntokens + 1
                  /\ tasks' = [tasks EXCEPT
                                 !.calls[p] = [c EXCEPT !.pc = "done",
                                                        !.outcome = "returned",
                                                        !.token = r.token],
                                 !.produced = @ \cup {r.token}]
    /\ UNCHANGED <<system, auth_type, now, client, live, status, csrf_token, nclients,
                   last, schema_ttl, schema_cache, prev, inp, out>>

\* the caller takes the token, or the exception
TaskReturn(p) ==
    /\ tasks.calls[p].pc = "done"
    /\ tasks' = [tasks EXCEPT !.calls[p] = NoTask]
    /\ UNCHANGED <<adapterVars, last, schema_ttl, schema_cache, prev, inp, out>>

\* two callers of one strategy, interleaved at the awaits
NextRace ==
    \/ Tick
    \/ \E p \in Callers : GetTokenBegin(p)
    \/ \E p \in Callers : GetTokenEnd(p)
    \/ \E p \in Callers : TaskReturn(p)

SpecRace == InitRace /\ [][NextRace]_vars

\* a tool caller that is not in a call
NoToolCall == [pc |-> "idle", adapter |-> 0, success |-> FALSE, status |-> "none"]

\* the server after start: no configuration or a loaded one, the registry
\* _adapters without an entry for the connection (adapters = 0), no
\* adapter instance created yet; instances[i] is the status of the i-th
\* adapter created for the connection
InitServer ==
    /\ InitAdapter
    /\ schema_ttl = DefaultTtl
    /\ schema_cache = EmptyCache
    /\ prev = NoPrev
    /\ inp = NoInput
    /\ out = NoOut
    /\ tasks \in {[calls |-> [p \in Callers |-> NoToolCall], config |-> c,
                    adapters |-> 0, instances |-> <<>>] : c \in BOOLEAN}

\* enterprise_configure: the configuration is loaded
Configure ==
    /\ Idle
    /\ ~tasks.config
    /\ tasks' = [tasks EXCEPT !.config = TRUE]
    /\ UNCHANGED <<adapterVars, last, schema_ttl, schema_cache, prev, inp, out>>

\* enterprise_connect up to the await in _get_adapter: a registered
\* adapter is reported at once; without configuration the RuntimeError
\* becomes a failure result; otherwise an adapter is created and its
\* connect() awaited
ConnectToolBegin(p) ==
    /\ Idle
    /\ tasks.calls[p].pc = "idle"
    /\ tasks' =
         IF tasks.adapters # 0
         THEN [tasks EXCEPT !.calls[p] =
                 [pc |-> "done", adapter |-> tasks.adapters, success |-> TRUE,
                  status |-> tasks.instances[tasks.adapters]]]
         ELSE IF ~tasks.config
         THEN [tasks EXCEPT !.calls[p] =
                 [pc |-> "done", adapter |-> 0, success |-> FALSE, status |-> "none"]]
         ELSE [tasks EXCEPT
                 !.instances = Append(@, "disconnected"),
                 !.calls[p] = [pc |-> "connecting", adapter |-> Len(tasks.instances) + 1,
                               success |-> FALSE, status |-> "none"]]
    /\ UNCHANGED <<adapterVars, last, schema_ttl, schema_cache, prev, inp, out>>

\* enterprise_connect from the await on: connect() of the new adapter
\* ends (its result is dropped), the adapter is put into the registry
\* and the tool answers success with the adapter's status as data
ConnectToolEnd(p) ==
    /\ Idle
    /\ tasks.calls[p].pc = "connecting"
    /\ \E tresp \in TokenResponses :
         LET gc == GetClient(auth_type, NoClient, NoToken, now, tresp, 1, 1)
         IN  /\ gc.posts > 0 \/ tresp = Unasked(TokenResponses)
             /\ \E resp \in Responses :
                  LET o == ConnectOutcome(gc, resp)
                      a == tasks.calls[p].adapter
                  IN  /\ ~gc.raised \/ resp = Unasked(Responses)
                      /\ tasks' = [tasks EXCEPT
                                     !.instances[a] = o.status,
                                     !.adapters = a,
                                     !.calls[p] = [pc |-> "done", adapter |-> a,
                                                   success |-> TRUE, status |-> o.status]]
    /\ UNCHANGED <<adapterVars, last, schema_ttl, schema_cache, prev, inp, out>>

\* the tool's answer is delivered
ToolReturn(p) ==
    /\ tasks.calls[p].pc = "done"
    /\ tasks' = [tasks EXCEPT !.calls[p] = NoToolCall]
    /\ UNCHANGED <<adapterVars, last, schema_ttl, schema_cache, prev, inp, out>>

\* two clients of the server calling enterprise_connect for one connection
NextServer ==
    \/ Configure
    \/ \E p \in Callers : ConnectToolBegin(p)
    \/ \E p \in Callers : ConnectToolEnd(p)
    \/ \E p \in Callers : ToolReturn(p)

SpecServer == InitServer /\ [][NextServer]_vars

\* the strategy on its own: its callers only ever call get_token
NextAuth ==
    \/ Tick
    \/ GetTokenCall
    \/ Return

SpecAuth == Init /\ [][NextAuth]_vars

\* the adapter, which reaches its strategy through _get_client
Next ==
    \/ Tick
    \/ Connect
    \/ Disconnect
    \/ HealthCheck
    \/ Query
    \/ GetRecord
    \/ CreateRecord
    \/ UpdateRecord
    \/ DeleteRecord
    \/ ListEntities
    \/ DescribeEntity
    \/ ExecuteRaw
    \/ Return

Spec == Init /\ [][Next]_vars

\* ------------------------------------------------------------- properties

\* a step that is the call op, from start to end
CallOf(op) == Idle /\ last'.op = op

\* the public operations of an adapter
AdapterOps ==
    {"connect", "disconnect", "health_check", "query", "get_record", "create_record",
     "update_record", "delete_record", "list_entities", "describe_entity", "execute_raw"}

\* C1: get_token() on a cached token that is not expired returns that very
\* token, calls neither acquire_token nor refresh_token, and leaves the
\* cached token as it was.
C1_ValidCachedTokenReturnedUnchanged ==
    [][(CallOf("get_token") /\ cached # NoToken /\ ~IsExpired(cached, now))
        => /\ last'.outcome = "returned"
           /\ last'.token = cached
           /\ last'.calls = <<>>
           /\ cached' = cached]_vars

\* C1 witness: a get_token() call has just returned the valid cached token
\* without any credential operation
C1_Witness ==
    /\ last.op = "get_token" /\ last.outcome = "returned"
    /\ last.calls = <<>>
    /\ cached # NoToken /\ last.token = cached /\ ~IsExpired(cached, now)

\* C2: get_token() with no cached token or an expired one performs exactly
\* one credential operation, refresh_token when the cached token carries a
\* refresh credential and acquire_token otherwise; when it succeeds the
\* newly issued token is cached and is the token returned.
C2_OneRefreshOrAcquire ==
    [][(CallOf("get_token") /\ (cached = NoToken \/ IsExpired(cached, now)))
        => /\ last'.calls = IF cached # NoToken /\ Truthy(cached.refresh_token)
                            THEN <<"refresh_token">>
                            ELSE <<"acquire_token">>
           /\ last'.outcome = "returned"
                => /\ last'.token.serial = ntokens + 1
                   /\ cached' = last'.token
           /\ last'.outcome = "raised" => cached' = cached]_vars

\* C2 witness: an expired token with a refresh credential has just been
\* replaced by one refresh_token call
C2_Witness ==
    /\ last.op = "get_token" /\ last.outcome = "returned"
    /\ last.calls = <<"refresh_token">>
    /\ cached = last.token /\ cached.serial = 2

\* C3: whenever get_token() returns, the token it returns is not expired
\* at that moment.
C3_ReturnedTokenIsValid ==
    (last.op = "get_token" /\ last.outcome = "returned") => ~IsExpired(last.token, now)

\* the expiry times is_expired is tried on at each clock value
ExpiresAtRange == {0} \cup ((StartTime - 40) .. (MaxTime + 40))

\* C4: is_expired is false when expires_at = 0; otherwise it is true exactly
\* when now >= expires_at - 30, hence true for every expires_at in the past
\* and false for every expires_at more than 30 seconds ahead.
C4_IsExpiredRule ==
    \A ea \in ExpiresAtRange :
        LET tok == [NoToken EXCEPT !.serial = 1, !.expires_at = ea]
        IN  /\ ea = 0 => ~IsExpired(tok, now)
            /\ ea # 0 => (IsExpired(tok, now) <=> now >= ea - 30)
            /\ (ea # 0 /\ ea < now) => IsExpired(tok, now)
            /\ ea > now + 30 => ~IsExpired(tok, now)

\* C4 witness: the cached token is inside the 30-second buffer, not yet
\* past its expiry and already expired
C4_Witness ==
    /\ cached # NoToken
    /\ cached.expires_at > now
    /\ IsExpired(cached, now)

\* a connect that follows a disconnect and gets a transport: the adapter
\* had a transport before (nclients >= 1) and holds none now, which only
\* disconnect brings about
Reconnect ==
    /\ CallOf("connect")
    /\ client = NoClient /\ nclients >= 1
    /\ client' # NoClient

\* an adapter holds at most one open transport, the one in _client
OneLiveTransport ==
    /\ Cardinality(live') <= 1
    /\ client' = NoClient => live' = {}
    /\ client' # NoClient => live' = {client'.id}

C6_RequestCredentialNotExpired ==
    (last.op \in AdapterOps /\ last.sent # <<>>) => ~IsExpired(client.token, now)

\* C7: no exception escapes a public adapter operation; every failure is
\* returned as an OperationResult with success = false.
C7_NoExceptionEscapes ==
    last.op \in AdapterOps => last.outcome = "returned"

\* C8: every OperationResult an adapter operation returns with
\* success = false has no data and a non-empty message.
C8_FailureHasMessageAndNoData ==
    (last.op \in AdapterOps /\ last.outcome = "returned" /\ ~last.result.success)
        => (last.result.data = "none" /\ last.result.message # "")

\* C9: connect() returns success = true and sets CONNECTED exactly when the
\* probe answered with a status below 400; when the token acquisition
\* failed, the transport raised or the probe answered 400 or above it
\* returns success = false and sets ERROR.
C9_ConnectFollowsProbe ==
    last.op = "connect"
        => /\ last.outcome = "returned"
           /\ last.result.success <=> (last.probe # 0 /\ last.probe < 400)
           /\ status = IF last.result.success THEN "connected" ELSE "error"

\* C9 witness: connect() has just failed on a probe answered with 400
C9_Witness ==
    /\ last.op = "connect" /\ last.probe = 400
    /\ ~last.result.success /\ status = "error"

\* C10: the status starts as DISCONNECTED, changes only in connect, in
\* disconnect or in a failed call, so every successful other operation
\* leaves it as it was, and disconnect always ends in DISCONNECTED.
C10_StatusChangesOnlyInConnectDisconnect ==
    /\ status = "disconnected"
    /\ [][/\ status' # status
              => /\ Idle
                 /\ \/ last'.op \in {"connect", "disconnect"}
                    \/ last'.outcome = "raised"
                    \/ ~last'.result.success
          /\ CallOf("disconnect") => status' = "disconnected"]_vars

\* C10 witness: a query has just succeeded on an adapter that was never
\* connected, and the status is still DISCONNECTED
C10_Witness ==
    /\ last.op = "query" /\ last.outcome = "returned" /\ last.result.success
    /\ status = "disconnected"

\* C18: every successful query() result carries metadata that holds a
\* total-count hint and a continuation indicator.
C18_QueryMetadataHasCountAndContinuation ==
    (last.op = "query" /\ last.outcome = "returned" /\ last.result.success)
        => /\ "total_count" \in last.result.metadata
           /\ last.result.metadata \cap {"has_more", "done", "next_url"} # {}

\* the requests of a call that carry the operation itself (not the CSRF
\* fetch that precedes a SAP write)
OperationRequests ==
    {i \in DOMAIN last.sent : last.sent[i] \in {"data", "probe"}}

\* C19: a call of a public adapter operation sends at most one request for
\* the operation: none when no transport could be made, one otherwise,
\* also when that request failed and also when the answer to a query says
\* there is more data.
C19_AtMostOneRequestPerCall ==
    last.op \in AdapterOps
        => /\ Cardinality(OperationRequests) <= 1
           /\ (last.outcome = "returned" /\ ~last.result.success)
                => Cardinality(OperationRequests) <= 1
           /\ last.more => Cardinality(OperationRequests) = 1

\* C19 witness: a query has just returned its one page, from the one
\* request it sent, although the answer said there is more
C19_Witness ==
    /\ last.op = "query" /\ last.result.success /\ last.more
    /\ last.sent = <<"data">>

\* a step that is the call op of the layer above the adapter
UpperCallOf(op) == Idle /\ out'.op = op

\* C11: get(e) returns the entry stored for e exactly when there is one
\* and now - fetched_at < ttl, and absent otherwise (always with ttl = 0),
\* and changes nothing; put(schema) stores the schema under its name with
\* fetched_at = now and leaves the other entries alone.
C11_GetReturnsEntryWithinTtl ==
    [][/\ UpperCallOf("get")
            => LET schema == schema_cache[out'.entity]
               IN  /\ out'.result =
                          IF schema # NoSchema /\ now - schema.fetched_at < schema_ttl
                          THEN schema
                          ELSE NoSchema
                   /\ schema_ttl = 0 => out'.result = NoSchema
                   /\ schema_cache' = schema_cache
       /\ UpperCallOf("put")
            => \A e \in Entities :
                 schema_cache'[e] = IF e = out'.entity
                                    THEN [out'.schema EXCEPT !.fetched_at = now]
                                    ELSE schema_cache[e]]_vars

\* C11 witness: get(e) has just returned absent for an entry whose age
\* has reached a ttl that is not zero
C11_Witness ==
    /\ out.op = "get" /\ out.result = NoSchema
    /\ schema_cache[out.entity] # NoSchema
    /\ schema_ttl > 0
    /\ now - schema_cache[out.entity].fetched_at = schema_ttl

\* C12: invalidate() without an argument removes every entry; invalidate(e)
\* with an entity name e, whatever the name, removes the entry for e and
\* leaves every other entry as it was, fetched_at included.
C12_InvalidateRemovesOnlyThatEntry ==
    [][UpperCallOf("invalidate")
        => \A e \in Entities :
             schema_cache'[e] = IF out'.entity = "None" \/ e = out'.entity
                                THEN NoSchema
                                ELSE schema_cache[e]]_vars

\* C13: a describe(entity) without force_refresh that follows, within the
\* ttl, a describe(entity) without force_refresh that fetched the
\* description from the vendor makes no describe_entity call, so the two
\* make exactly one, and its result is marked as coming from the cache.
C13_SecondDescribeServedFromCache ==
    [][(/\ UpperCallOf("describe") /\ ~out'.force
        /\ prev.entity = out'.entity
        /\ now - prev.at < schema_ttl)
        => /\ out'.remote = 0 /\ last' = NoCall
           /\ out'.outcome = "returned" /\ out'.result.success
           /\ out'.result.message = "from cache"]_vars

\* C14: describe(entity, force_refresh) with a valid entry for entity and
\* force_refresh false calls no adapter, leaves the cache alone and returns
\* the to_dict() of that entry; otherwise it calls describe_entity exactly
\* once and, when that succeeded, the result's data is the to_dict() of the
\* entry now stored under the name the data carries, whose fetched_at is
\* now, every other entry being as before.  The data of a hit is thus the
\* data the populating call returned.
C14_DescribeHitOrRefresh ==
    [][UpperCallOf("describe")
        => LET entry == schema_cache[out'.entity]
               valid == entry # NoSchema /\ now - entry.fetched_at < schema_ttl
           IN  IF ~out'.force /\ valid
               THEN /\ out'.remote = 0 /\ last' = NoCall
                    /\ out'.outcome = "returned" /\ out'.result.success
                    /\ out'.result.data = SchemaToDict(entry)
                    /\ schema_cache' = schema_cache
               ELSE /\ out'.remote = 1 /\ last'.op = "describe_entity"
                    /\ (out'.outcome = "returned" /\ out'.result.success)
                         => LET n == out'.result.data.name
                            IN  /\ schema_cache'[n] # NoSchema
                                /\ schema_cache'[n].fetched_at = now
                                /\ out'.result.data = SchemaToDict(schema_cache'[n])
                                /\ \A m \in Entities \ {n} :
                                      schema_cache'[m] = schema_cache[m]]_vars

\* C14 witness: a describe has just been served from an entry that was
\* stored at an earlier time
C14_Witness ==
    /\ out.op = "describe" /\ out.remote = 0
    /\ out.result.message = "from cache"
    /\ schema_cache[out.entity].fetched_at < now
    /\ out.result.data = SchemaToDict(schema_cache[out.entity])

\* the operator each suffix of OPERATOR_SUFFIXES names
SuffixOperator == <<OpGt, OpGte, OpLt, OpLte, OpNe, OpIn, OpLike, OpNull>>

\* C15: for a key that ends in a recognized suffix, parse_filter_key
\* returns the key without exactly that suffix and the operator the suffix
\* names; for every other key, bare or with an unknown suffix, it returns
\* the key itself and "eq".
C15_ParseStripsRecognizedSuffix ==
    out.op = "parse_filter_key"
        => LET k == inp.key
               hits == {i \in DOMAIN OPERATOR_SUFFIXES :
                           \E n \in 0..Len(k) : k = SubSeq(k, 1, n) \o OPERATOR_SUFFIXES[i]}
           IN  /\ \A i \in hits :
                     out.result = <<SubSeq(k, 1, Len(k) - Len(OPERATOR_SUFFIXES[i])),
                                    SuffixOperator[i]>>
               /\ hits = {} => out.result = <<k, <<"e", "q">>>>

\* C15 witness: "a__in__gte" has been parsed into "a__in" and "gte"
C15_Witness ==
    /\ out.op = "parse_filter_key"
    /\ inp.key = <<"a", "_", "_", "i", "n", "_", "_", "g", "t", "e">>
    /\ out.result = <<(<<"a", "_", "_", "i", "n">>), (<<"g", "t", "e">>)>>

\* the keys of the comparison operators: bare (eq) or with the suffix of
\* ne, gt, gte, lt, lte
ComparisonKeys ==
    {<<"a">> \o t : t \in {<<>>, <<"_", "_", "n", "e">>, <<"_", "_", "g", "t">>,
                            <<"_", "_", "g", "t", "e">>, <<"_", "_", "l", "t">>,
                            <<"_", "_", "l", "t", "e">>}}

\* C16: every translator renders one condition per filter entry, in order;
\* under a comparison operator a string value is written between quotes
\* and a number or a boolean is written bare.
C16_OneConditionPerEntryStringsQuoted ==
    (out.op = "translate" /\ out.outcome = "returned")
        => /\ Len(out.result.conditions) = Len(inp.filters)
           /\ \A i \in DOMAIN inp.filters :
                LET value == inp.filters[i].value
                    cond == out.result.conditions[i]
                IN  inp.filters[i].key \in ComparisonKeys
                         => /\ cond.kind = "compare" /\ cond.field = <<"a">>
                            /\ value.type = "str"
                                 => cond.literal = <<"'", value.text, "'">>
                            /\ value.type \in {"int", "bool"}
                                 => cond.literal = <<value.text>>

\* C16 witness: two entries have been rendered as two conditions, a quoted
\* string under gte and a bare number under eq
C16_Witness ==
    /\ out.op = "translate" /\ Len(out.result.conditions) = 2
    /\ inp.filters[1].key = <<"a", "_", "_", "g", "t", "e">>
    /\ inp.filters[1].value.type = "str"
    /\ out.result.conditions[1].literal = <<"'", "x", "'">>
    /\ inp.filters[2].key = <<"a">>
    /\ inp.filters[2].value.type = "int"
    /\ out.result.conditions[2].literal = <<"0">>

\* C17: a filter entry with the __in suffix and a value that is not a
\* sequence makes the translation fail; it is never rendered as a condition.
C17_InWithScalarIsAnError ==
    (out.op = "translate"
     /\ \E i \in DOMAIN inp.filters :
          /\ inp.filters[i].key = <<"a", "_", "_", "i", "n">>
          /\ inp.filters[i].value.type # "list")
        => out.outcome = "raised"

\* the indexes of the records that have a value for the field, their sum
NonNull == {i \in DOMAIN out.records : ~out.records[i].null}

Total ==
    LET acc[i \in 0..Len(out.records)] ==
            IF i = 0 THEN 0
            ELSE acc[i - 1] + (IF out.records[i].null THEN 0 ELSE out.records[i].v)
    IN  acc[Len(out.records)]

C24_StaticCredentialAcquiredOnce ==
    [][(CallOf("get_token") /\ auth_type \in {"basic", "api_key"})
        => /\ last'.outcome = "returned"
           /\ last'.token.expires_at = 0 /\ ~IsExpired(last'.token, now)
           /\ last'.token.access_token = 0
           /\ last'.calls = IF cached = NoToken THEN <<"acquire_token">> ELSE <<>>
           /\ cached # NoToken => last'.token = cached
           /\ cached' = last'.token
           /\ ntokens' <= 1]_vars

\* C24 witness: a Basic strategy has just answered a later get_token(),
\* after time has passed, from the token of its first call
C24_Witness ==
    /\ auth_type = "basic" /\ last.op = "get_token" /\ last.calls = <<>>
    /\ now > StartTime /\ ntokens = 1 /\ last.token = cached

\* C27: a get_token() whose refresh_token or acquire_token fails raises
\* and leaves the cached token as it was, absent or the expired one, so
\* that the strategy still needs a token; and get_token() on a strategy
\* that needs a token attempts one credential operation, after a failure
\* as at any other time.
C27_FailedTokenCallLeavesCache ==
    [][CallOf("get_token")
        => /\ last'.outcome = "raised"
                => /\ cached' = cached
                   /\ cached' = NoToken \/ IsExpired(cached', now')
                   /\ Len(last'.calls) = 1
           /\ (cached = NoToken \/ IsExpired(cached, now)) => Len(last'.calls) = 1]_vars

\* C27 witness: a refresh has just failed and the expired token, with its
\* refresh credential, is still the cached one
C27_Witness ==
    /\ last.op = "get_token" /\ last.outcome = "raised"
    /\ last.calls = <<"refresh_token">>
    /\ cached # NoToken /\ IsExpired(cached, now) /\ Truthy(cached.refresh_token)

\* C28 as stated: an adapter whose status is DISCONNECTED holds no
\* transport.
C28_DisconnectedHoldsNoTransport ==
    status = "disconnected" => (client = NoClient /\ live = {})

\* C28 amended: an adapter whose status is CONNECTED holds its one live
\* transport, and disconnect() leaves it with none.  (Under DISCONNECTED
\* and ERROR a transport may or may not exist: every operation opens it
\* through _get_client and only connect and disconnect write the status.)
C28_ConnectedHoldsTransport ==
    /\ status = "connected" => (client # NoClient /\ live = {client.id})
    /\ last.op = "disconnect"
         => (status = "disconnected" /\ client = NoClient /\ live = {})

\* C28 witness: a query has just run on a connected adapter, over the
\* transport connect() opened
C28_Witness ==
    /\ status = "connected" /\ last.op = "query"
    /\ client # NoClient /\ live = {client.id} /\ ~last.asked

\* a call that sent the X-CSRF-Token: Fetch request
FetchedCsrf(call) == \E i \in DOMAIN call.sent : call.sent[i] = "csrf"

\* the calls that change data at the vendor
Mutating(call) ==
    \/ call.op \in {"create_record", "update_record", "delete_record"}
    \/ call.op = "execute_raw" /\ call.method # "GET"

\* C25 as stated: the SAP adapter sends at most one CSRF fetch between two
\* reconnects whatever the gateway answers to it: a fetch goes out only
\* while no fetch has been answered since the adapter was built or
\* disconnected (_csrf_token is None).
C25_AtMostOneFetchBetweenReconnects ==
    [][\A op \in AdapterOps : (CallOf(op) /\ FetchedCsrf(last')) => csrf_token = "None"]_vars

\* C25 amended: only the SAP adapter fetches, only in a mutating call and
\* only while it holds no token (none yet, or an empty one from a fetch
\* the gateway answered without the header); a mutating call that sends
\* anything in that state sends one fetch first.  A token once held is reused by every call
\* and stays until disconnect(), which clears it; a call that does not
\* fetch leaves _csrf_token alone.
C25_FetchOnlyWithoutTokenThenReuse ==
    [][\A op \in AdapterOps :
         CallOf(op)
          => /\ FetchedCsrf(last')
                  => /\ system = "sap" /\ Mutating(last') /\ ~Truthy(csrf_token)
                     /\ last'.sent \in {<<"csrf">>, <<"csrf", "data">>}
             /\ (system = "sap" /\ Mutating(last') /\ ~Truthy(csrf_token)
                   /\ last'.sent # <<>>) => FetchedCsrf(last')
             /\ (Truthy(csrf_token) /\ op # "disconnect")
                  => (~FetchedCsrf(last') /\ csrf_token' = csrf_token)
             /\ ~FetchedCsrf(last') /\ op # "disconnect" => csrf_token' = csrf_token
             /\ (op = "disconnect" /\ system = "sap") => csrf_token' = "None"]_vars

\* C25 witness: a second mutating request has just gone out on the SAP
\* adapter under the token the first one fetched, with no fetch of its own
C25_Witness ==
    /\ system = "sap" /\ Mutating(last) /\ last.outcome = "returned"
    /\ last.sent = <<"data">> /\ csrf_token = "csrf"

C23_SearchMatchesNameOrLabel ==
    (out.op = "search_fields" /\ out.outcome = "returned")
        => IF ~out.described.success THEN out.result = out.described
           ELSE LET fields == out.described.data.fields
                    found == out.result.data
                    k == out.keyword
                    Same(a, b) == Lower(<<a>>) = Lower(<<b>>)
                    At(text, off) ==
                        /\ off + Len(k) <= Len(text)
                        /\ \A n \in 1..Len(k) : Same(k[n], text[off + n])
                    Match(f) ==
                        \/ \E off \in 0..Len(Chars(f.name)) : At(Chars(f.name), off)
                        \/ \E off \in 0..Len(Chars(f.label)) : At(Chars(f.label), off)
                    matching == {j \in DOMAIN fields : Match(fields[j])}
                IN  /\ out.result.success
                    /\ Len(found) = Cardinality(matching)
                    /\ \A j \in matching : \E i \in DOMAIN found : found[i] = fields[j]
                    /\ \A i \in DOMAIN found :
                          \E j \in matching : found[i] = fields[j]
                    /\ \A i1, i2 \in DOMAIN found :
                          i1 < i2 => \E j1, j2 \in matching :
                                        /\ j1 < j2
                                        /\ found[i1] = fields[j1] /\ found[i2] = fields[j2]

\* C23 witness: a search for "cc" has just found the one field whose
\* label, not its name, contains it, among the two fields of the entity
C23_Witness ==
    /\ out.op = "search_fields" /\ out.keyword = <<"c", "c">>
    /\ out.result.success /\ Len(out.described.data.fields) = 2
    /\ Len(out.result.data) = 1
    /\ out.result.data[1].name = "Name" /\ out.result.data[1].label = "Account Name"

\* C26: the SuiteQL rendered for a query with offset > 0 has the clause
\* OFFSET <offset> ROWS in front of its FETCH clause, and the one rendered
\* with offset = 0 has no OFFSET clause, whatever the limit, limit = 0
\* included.
C26_OffsetClauseForEveryLimit ==
    (out.op = "translate" /\ system = "netsuite" /\ out.outcome = "returned")
        => LET paging == out.result.paging
           IN  /\ out.offset > 0
                    => \E i \in DOMAIN paging :
                          /\ paging[i] = Clause("OFFSET", out.offset)
                          /\ \A j \in DOMAIN paging :
                                paging[j].clause = "FETCH" => i < j
               /\ out.offset = 0
                    => \A i \in DOMAIN paging : paging[i].clause # "OFFSET"

\* C22: get_token() calls that overlap are not kept apart (the witness
\* shows two of them acquiring at once), yet in every interleaving a call
\* that returns hands back a token that a completed acquire_token or
\* refresh_token produced, and the cached token is none or one of those.
C22_OverlappingCallsReturnProducedTokens ==
    /\ \A p \in Callers :
          (tasks.calls[p].pc = "done" /\ tasks.calls[p].outcome = "returned")
              => tasks.calls[p].token \in tasks.produced
    /\ cached # NoToken => cached \in tasks.produced
    /\ Cardinality(tasks.produced) = ntokens

\* C22 witness: both callers hold a token of their own, neither expired,
\* so both acquired while the other was under way; the later one is cached
C22_Witness ==
    /\ \A p \in Callers :
          /\ tasks.calls[p].pc = "done" /\ tasks.calls[p].outcome = "returned"
          /\ tasks.calls[p].op = "acquire_token"
          /\ ~IsExpired(tasks.calls[p].token, now)
    /\ tasks.calls[1].token # tasks.calls[2].token
    /\ cached \in {tasks.calls[1].token, tasks.calls[2].token}

\* C30: enterprise_connect answers success = true only when the adapter
\* it used is in status CONNECTED, on the first call for the connection
\* and on every later one.
C30_ConnectToolSuccessMeansConnected ==
    \A p \in Callers :
        (tasks.calls[p].pc = "done" /\ tasks.calls[p].success)
            => /\ tasks.calls[p].status = "connected"
               /\ tasks.instances[tasks.calls[p].adapter] = "connected"

\* C21: whatever the interleaving of the tool calls for one connection,
\* at most one adapter is created and connected for it, and every call
\* uses the registered instance.
C21_OneAdapterPerConnection ==
    /\ Len(tasks.instances) <= 1
    /\ \A p \in Callers :
          tasks.calls[p].adapter # 0 =>
              tasks.adapters \in {0, tasks.calls[p].adapter}

====
